---- MODULE Spec2Model ----
(***************************************************************************)
(* Model of lutris/gui/application.py: the Gtk application shell that      *)
(* turns a command line (options plus an optional lutris: URI) into one of *)
(* the actions install / run / list / exec, resolving the game against the *)
(* pga database and keeping a single main window.                          *)
(***************************************************************************)
EXTENDS Naturals, Sequences, FiniteSets

VARIABLES
    db,            \* rows of the pga games table, in the order the store returns them
    window,        \* Application.window: "None", "LutrisWindow" or "destroyed"
    windowsCreated,\* number of LutrisWindow(...) constructions so far
    pc,            \* "created", "idle", a position in the running handler,
                   \* "shutdown", or "killed" (the process was ended by a signal)
    options,       \* command_line.get_options_dict() of the current invocation
    game_slug,     \* locals of do_command_line
    action,
    revision,
    installer_file,
    db_game,
    dlg,           \* the InstallOrPlayDialog shown in this invocation (NoDialog if none)
    activations,   \* self.activate() calls made by the current handler
    presents,      \* window.present() calls made by the current handler
    creations,     \* LutrisWindow(...) constructions made by the current handler
    queries,       \* pga.get_game_by_field calls made by the current handler
    output,        \* lines printed on the invoking terminal by the current handler
    installCalls,  \* window.on_install_clicked calls made by the current handler
    runCalls,      \* window.on_game_run calls made by the current handler
    exitStatus,    \* "running", "0", "1" or "raised" (uncaught exception)
    listed,        \* the games printed by --list-games in the current handler
    sigint,        \* disposition of SIGINT: "python" (KeyboardInterrupt) or "SIG_DFL"
    child,         \* the command started by --exec: "none", "running" or "finished"
    stopCalls,     \* thread.stop() calls made by the current handler
    prev           \* what the previous handler was given and did, when it is remembered

vars == <<db, window, windowsCreated, pc, options, game_slug, action, revision,
          installer_file, db_game, dlg, activations, presents, creations, queries,
          output, installCalls, runCalls, exitStatus, listed, sigint, child,
          stopCalls, prev>>

-----------------------------------------------------------------------------
(* Bounds *)

\* largest number of rows in the games table
MaxGames == 2
\* the window construction counter saturates here
MaxWindowsCounted == 3

-----------------------------------------------------------------------------
(* Values *)

None == "None"

\* values of the id / slug / installer_slug columns
DbValues == {"42", "7"}
\* identifiers that arrive in a URI
UriIdents == DbValues
Revisions == {None, "r1"}
UriActions == {"install", "rungame", "rungameid", "frobnicate"}

NoGame == [id |-> None, slug |-> None, installer_slug |-> None, installed |-> FALSE]

GameRecords ==
    [id : DbValues, slug : DbValues, installer_slug : DbValues \cup {None},
     installed : BOOLEAN]

RECURSIVE SeqsUpTo(_, _)
SeqsUpTo(S, n) ==
    IF n = 0 THEN {<<>>}
    ELSE LET shorter == SeqsUpTo(S, n - 1)
         IN  shorter \cup {Append(s, x) : s \in {t \in shorter : Len(t) = n - 1}, x \in S}

\* the id column is the table's primary key
Databases ==
    {d \in SeqsUpTo(GameRecords, MaxGames) :
        \A i, j \in 1..Len(d) : i # j => d[i].id # d[j].id}

\* a URI as the invoking shell hands it over: scheme, path segments, revision query
NoUri == [scheme |-> None, path |-> <<>>, revision |-> None]

WellFormedUris ==
    {[scheme |-> "lutris", path |-> <<i>>, revision |-> r] :
        i \in UriIdents, r \in Revisions}
    \cup
    {[scheme |-> "lutris", path |-> <<a, i>>, revision |-> r] :
        a \in UriActions, i \in UriIdents, r \in Revisions}

MalformedUris ==
    {[scheme |-> "http", path |-> <<"42">>, revision |-> None],
     [scheme |-> "lutris", path |-> <<>>, revision |-> None]}

Uris == {NoUri} \cup WellFormedUris \cup MalformedUris

\* file system paths as sequences of components; an absolute path starts with "/"
NoPath == <<>>
Cwd == <<"/", "home">>
InstallArgs == {<<"game.yml">>, <<"/", "home", "game.yml">>, <<"missing.yml">>}
Files == {<<"/", "home", "game.yml">>}

TextFlags == {"list-games", "list-steam-games", "list-steam-folders", "exec"}
\* --installed and --json only modify --list-games
AllFlags == TextFlags \cup {"installed", "json"}

\* what comes with a flagged invocation: no URI, a run URI or a malformed one,
\* and no --install or one that names a missing file
FlaggedUris ==
    {NoUri,
     [scheme |-> "lutris", path |-> <<"rungame", "42">>, revision |-> None],
     [scheme |-> "http", path |-> <<"42">>, revision |-> None]}
FlaggedInstalls == {NoPath, <<"missing.yml">>}

Invocations ==
    [flags : {{}}, uri : Uris, install : {NoPath} \cup InstallArgs]
    \cup
    [flags : (SUBSET AllFlags) \ {{}}, uri : FlaggedUris, install : FlaggedInstalls]

NoOptions == [flags |-> {}, uri |-> NoUri, install |-> NoPath]

NoDialog == [shown |-> FALSE, action_confirmed |-> FALSE, action |-> None]
DialogResults ==
    [shown : {TRUE}, action_confirmed : BOOLEAN, action : {"play", "install", None}]

-----------------------------------------------------------------------------
(* Pure functions *)

\* lutris.util.resources.parse_installer_url: FALSE-like result is ParseFailed
ParseFailed == [ok |-> FALSE, game_slug |-> None, revision |-> None, action |-> None]

parse_installer_url(url) ==
    IF url.scheme # "lutris" THEN ParseFailed
    ELSE IF Len(url.path) = 2
         THEN [ok |-> TRUE, game_slug |-> url.path[2], revision |-> url.revision,
               action |-> url.path[1]]
    ELSE IF Len(url.path) = 1
         THEN [ok |-> TRUE, game_slug |-> url.path[1], revision |-> url.revision,
               action |-> None]
    ELSE ParseFailed

\* mutant: the `raise ValueError` on a failed parse is lost
get_lutris_action_NoRaise(url) ==
    IF url # NoUri /\ parse_installer_url(url).ok
    THEN parse_installer_url(url)
    ELSE [ok |-> TRUE, game_slug |-> None, revision |-> None, action |-> None]

\* Application.get_lutris_action: ok = FALSE stands for the ValueError it raises
get_lutris_action(url) ==
    IF url # NoUri
    THEN parse_installer_url(url)
    ELSE [ok |-> TRUE, game_slug |-> None, revision |-> None, action |-> None]

\* os.path.abspath
abspath(p) == IF Len(p) > 0 /\ p[1] = "/" THEN p ELSE Cwd \o p

\* mutant: the existence test always succeeds
isfile_Always(p) == TRUE

\* os.path.isfile
isfile(p) == p \in Files

\* the first text-only flag of the if/elif chain that is present, else None
TextCommand(flags) ==
    IF "list-games" \in flags THEN "list-games"
    ELSE IF "list-steam-games" \in flags THEN "list-steam-games"
    ELSE IF "list-steam-folders" \in flags THEN "list-steam-folders"
    ELSE IF "exec" \in flags THEN "exec"
    ELSE None

\* mutant: the --installed filter is lost
GameList_All(d, flags) == d

\* game_list = pga.get_games(), cut down to the installed games under --installed
GameList(d, flags) ==
    IF "installed" \in flags THEN SelectSeq(d, LAMBDA g : g.installed) ELSE d

\* the columns of a game that print_game_list and print_game_json both print
Printed(games) == [i \in 1..Len(games) |-> [id |-> games[i].id, slug |-> games[i].slug]]

\* mutant: `action = 'install'` is lost
ForcedAction_Keep(act, install) == act

\* the --install option overrides whatever action the URI carried
ForcedAction(act, install) == IF install # NoPath THEN "install" ELSE act

\* pga.get_game_by_field: the first row whose field equals value, else nothing
RECURSIVE FirstMatch(_, _, _, _)
FirstMatch(d, value, field, i) ==
    IF i > Len(d) THEN NoGame
    ELSE IF d[i][field] = value THEN d[i]
    ELSE FirstMatch(d, value, field, i + 1)

get_game_by_field(d, value, field) == FirstMatch(d, value, field, 1)

\* mutant: the install lookups are tried in the opposite order
LookupFields_InstallerFirst(act) ==
    IF act = "rungameid" THEN <<"id">>
    ELSE IF act = "rungame" THEN <<"slug">>
    ELSE IF act = "install" THEN <<"installer_slug", "slug">>
    ELSE <<"id", "slug", "installer_slug">>

\* the fields do_command_line tries, in order, for an action
LookupFields(act) ==
    IF act = "rungameid" THEN <<"id">>
    ELSE IF act = "rungame" THEN <<"slug">>
    ELSE IF act = "install" THEN <<"slug", "installer_slug">>
    ELSE <<"id", "slug", "installer_slug">>

\* an `or` chain of lookups: evaluates left to right and stops at the first hit
RECURSIVE OrChain(_, _, _, _)
OrChain(d, value, fields, i) ==
    IF i > Len(fields) THEN [game |-> NoGame, asked |-> <<>>]
    ELSE LET g == get_game_by_field(d, value, fields[i])
             q == [field |-> fields[i], value |-> value]
         IN  IF g # NoGame THEN [game |-> g, asked |-> <<q>>]
             ELSE LET rest == OrChain(d, value, fields, i + 1)
                  IN  [game |-> rest.game, asked |-> <<q>> \o rest.asked]

\* mutant: the `if game_slug` guard is lost
ResolveGame_NoGuard(d, slug, act) == OrChain(d, slug, LookupFields(act), 1)

ResolveGame(d, slug, act) ==
    IF slug # None THEN OrChain(d, slug, LookupFields(act), 1)
    ELSE [game |-> NoGame, asked |-> <<>>]

\* mutant: the installed test is lost
AskUser_AnyRecord(g) == g # NoGame

\* `db_game and db_game['installed']`: the game is known and installed, so ask
AskUser(g) == g # NoGame /\ g.installed

\* the action after the InstallOrPlayDialog has been answered
DialogAction(act, d) ==
    LET a1 == IF ~d.action_confirmed THEN None ELSE act
    IN  IF d.action = "play" THEN "rungame"
        ELSE IF d.action = "install" THEN "install"
        ELSE a1


\* mutant: only the handler that created the window defaults to install
DefaultAction_FirstWindowOnly(act, slug, file) ==
    IF (slug # None \/ file # NoPath) /\ creations = 1 THEN "install" ELSE act

\* no game found (or not installed): install if a slug or an installer file was given
DefaultAction(act, slug, file) ==
    IF slug # None \/ file # NoPath THEN "install" ELSE act

\* mutant: 'rungameid' is missing from the tuple of run actions
Dispatch_NoRunById(act) ==
    IF act = "install" THEN "install"
    ELSE IF act = "rungame" THEN "run"
    ELSE "none"

\* which collaborator the final action selects
Dispatch(act) ==
    IF act = "install" THEN "install"
    ELSE IF act \in {"rungame", "rungameid"} THEN "run"
    ELSE "none"

\* mutant: a missing game is launched all the same
LaunchRaises_Never(g) == FALSE

\* db_game['name'] and db_game['id'] raise when no game was resolved
LaunchRaises(g) == g = NoGame

\* nothing is remembered of an earlier handler
NoPrev == [options |-> NoOptions, dlg |-> NoDialog, db_game |-> NoGame,
           action |-> None, exitStatus |-> "running", set |-> FALSE]

-----------------------------------------------------------------------------
Init ==
    /\ db \in Databases
    /\ window = None
    /\ windowsCreated = 0
    /\ pc = "created"
    /\ options = NoOptions
    /\ game_slug = None
    /\ action = None
    /\ revision = None
    /\ installer_file = NoPath
    /\ db_game = NoGame
    /\ dlg = NoDialog
    /\ activations = 0
    /\ presents = 0
    /\ creations = 0
    /\ queries = <<>>
    /\ output = <<>>
    /\ installCalls = <<>>
    /\ runCalls = <<>>
    /\ exitStatus = "running"
    /\ listed = <<>>
    /\ sigint = "python"
    /\ child = "none"
    /\ stopCalls = 0
    /\ prev = NoPrev

\* mutant: the `if not self.window` test is lost
NewWindowNeeded_Always == TRUE

\* `if not self.window`
NewWindowNeeded == window = None

Bump(n) == IF n < MaxWindowsCounted THEN n + 1 ELSE n

\* do_activate: create the window once, then present it
do_activate ==
    /\ window' = "LutrisWindow"
    /\ windowsCreated' = IF NewWindowNeeded THEN Bump(windowsCreated) ELSE windowsCreated
    /\ creations' = IF NewWindowNeeded THEN creations + 1 ELSE creations
    /\ presents' = presents + 1

\* do_startup: SIGINT gets its default disposition, ending the process at once
Startup ==
    /\ pc = "created"
    /\ pc' = "idle"
    /\ sigint' = "SIG_DFL"
    /\ UNCHANGED <<db, window, windowsCreated, options, game_slug, action, revision,
                   installer_file, db_game, dlg, activations, presents, creations,
                   queries, output, installCalls, runCalls, exitStatus, listed, child,
                   stopCalls, prev>>

\* the activate signal arrives while no handler is running
Activate ==
    /\ pc = "idle"
    /\ pc' = "activated"
    /\ do_activate
    /\ UNCHANGED <<db, options, game_slug, action, revision, installer_file, db_game,
                   dlg, activations, queries, output, installCalls, runCalls,
                   exitStatus>>
    /\ UNCHANGED <<listed, sigint, child, stopCalls, prev>>

\* a command line (local or forwarded by a second process) reaches do_command_line
Invoke ==
    /\ pc = "idle"
    /\ \E o \in Invocations : options' = o
    /\ pc' = "start"
    /\ UNCHANGED <<db, window, windowsCreated, game_slug, action, revision,
                   installer_file, db_game, dlg, activations, presents, creations,
                   queries, output, installCalls, runCalls, exitStatus>>
    /\ UNCHANGED <<listed, sigint, child, stopCalls, prev>>

\* the handler has returned to the main loop: its frame is gone
Finish ==
    /\ pc \in {"done", "activated"}
    /\ pc' = "idle"
    /\ options' = NoOptions
    /\ game_slug' = None
    /\ action' = None
    /\ revision' = None
    /\ installer_file' = NoPath
    /\ db_game' = NoGame
    /\ dlg' = NoDialog
    /\ activations' = 0
    /\ presents' = 0
    /\ creations' = 0
    /\ queries' = <<>>
    /\ output' = <<>>
    /\ installCalls' = <<>>
    /\ runCalls' = <<>>
    /\ exitStatus' = "running"
    /\ listed' = <<>>
    /\ child' = "none"
    /\ stopCalls' = 0
    /\ UNCHANGED <<db, window, windowsCreated>>
    /\ prev' = NoPrev
    /\ UNCHANGED sigint

\* an ActionRequest: a URI and an --install option, no flag
ActionRequests == [flags : {{}}, uri : Uris, install : {NoPath} \cup InstallArgs]

\* a command line with an ActionRequest arrives while nothing is remembered
InvokeRequest ==
    /\ pc = "idle"
    /\ ~prev.set
    /\ \E o \in ActionRequests : options' = o
    /\ pc' = "start"
    /\ UNCHANGED <<db, window, windowsCreated, game_slug, action, revision,
                   installer_file, db_game, dlg, activations, presents, creations,
                   queries, output, installCalls, runCalls, exitStatus, listed, sigint,
                   child, stopCalls, prev>>

\* the handler has returned, and what it was given and did is remembered
Remember ==
    /\ pc = "done"
    /\ ~prev.set
    /\ prev' = [options |-> options, dlg |-> dlg, db_game |-> db_game,
                action |-> action, exitStatus |-> exitStatus, set |-> TRUE]
    /\ pc' = "idle"
    /\ options' = NoOptions
    /\ game_slug' = None
    /\ action' = None
    /\ revision' = None
    /\ installer_file' = NoPath
    /\ db_game' = NoGame
    /\ dlg' = NoDialog
    /\ activations' = 0
    /\ presents' = 0
    /\ creations' = 0
    /\ queries' = <<>>
    /\ output' = <<>>
    /\ installCalls' = <<>>
    /\ runCalls' = <<>>
    /\ exitStatus' = "running"
    /\ listed' = <<>>
    /\ child' = "none"
    /\ stopCalls' = 0
    /\ UNCHANGED <<db, window, windowsCreated, sigint>>

\* the remembered command line arrives a second time
InvokeAgain ==
    /\ pc = "idle"
    /\ prev.set
    /\ options' = prev.options
    /\ pc' = "start"
    /\ UNCHANGED <<db, window, windowsCreated, game_slug, action, revision,
                   installer_file, db_game, dlg, activations, presents, creations,
                   queries, output, installCalls, runCalls, exitStatus, listed, sigint,
                   child, stopCalls, prev>>

\* do_shutdown: the window, if any, is destroyed and no handler runs any more
Shutdown ==
    /\ pc = "idle"
    /\ pc' = "shutdown"
    /\ window' = IF window # None THEN "destroyed" ELSE window
    /\ UNCHANGED <<db, windowsCreated, options, game_slug, action, revision,
                   installer_file, db_game, dlg, activations, presents, creations,
                   queries, output, installCalls, runCalls, exitStatus>>
    /\ UNCHANGED <<listed, sigint, child, stopCalls, prev>>

Return(status) ==
    /\ pc' = "done"
    /\ exitStatus' = status

Line(text, uri, path) == [text |-> text, uri |-> uri, path |-> path]

\* print_game_json prints one JSON array, print_game_list one line for each game
PrintGames(games, flags) ==
    IF "json" \in flags THEN <<Line("json", NoUri, NoPath)>>
    ELSE [i \in 1..Len(games) |-> Line("game", NoUri, NoPath)]

\* --list-games, --list-steam-games, --list-steam-folders: print and return 0
ListCommand ==
    /\ pc = "start"
    /\ TextCommand(options.flags) \in {"list-games", "list-steam-games", "list-steam-folders"}
    /\ IF TextCommand(options.flags) = "list-games"
       THEN LET game_list == GameList(db, options.flags)
            IN  /\ listed' = Printed(game_list)
                /\ output' = output \o PrintGames(game_list, options.flags)
       ELSE /\ listed' = listed
            /\ output' = Append(output, Line(TextCommand(options.flags), NoUri, NoPath))
    /\ Return("0")
    /\ UNCHANGED <<db, window, windowsCreated, options, game_slug, action, revision,
                   installer_file, db_game, dlg, activations, presents, creations,
                   queries, installCalls, runCalls>>
    /\ UNCHANGED <<sigint, child, stopCalls, prev>>

\* --exec: execute_command starts the command and enters GLib.MainLoop().run()
ExecCommand ==
    /\ pc = "start"
    /\ TextCommand(options.flags) = "exec"
    /\ child' = "running"
    /\ pc' = "mainloop"
    /\ UNCHANGED <<db, window, windowsCreated, options, game_slug, action, revision,
                   installer_file, db_game, dlg, activations, presents, creations,
                   queries, output, installCalls, runCalls, exitStatus>>
    /\ UNCHANGED <<listed, sigint, stopCalls, prev>>

\* the command started by --exec comes to its end while the handler waits
ChildExits ==
    /\ pc = "mainloop"
    /\ child = "running"
    /\ child' = "finished"
    /\ UNCHANGED <<db, window, windowsCreated, pc, options, game_slug, action,
                   revision, installer_file, db_game, dlg, activations, presents,
                   creations, queries, output, installCalls, runCalls, exitStatus,
                   listed, sigint, stopCalls, prev>>

\* what a SIGINT does to the handler blocked in GLib.MainLoop().run()
OnSigint(disposition) == IF disposition = "SIG_DFL" THEN "killed" ELSE "KeyboardInterrupt"

\* SIGINT arrives during the wait: under SIG_DFL the process ends there and
\* then; otherwise `except KeyboardInterrupt` calls thread.stop() and the
\* handler returns 0
Interrupt ==
    /\ pc = "mainloop"
    /\ IF OnSigint(sigint) = "killed"
       THEN /\ pc' = "killed"
            /\ UNCHANGED <<stopCalls, exitStatus>>
       ELSE /\ stopCalls' = stopCalls + 1
            /\ Return("0")
    /\ UNCHANGED <<db, window, windowsCreated, options, game_slug, action, revision,
                   installer_file, db_game, dlg, activations, presents, creations,
                   queries, output, installCalls, runCalls, listed, sigint, child,
                   prev>>

\* url = options.lookup_value(REMAINING); installer_info = get_lutris_action(url)
ParseUri ==
    /\ pc = "start"
    /\ TextCommand(options.flags) = None
    /\ LET installer_info == get_lutris_action(options.uri)
       IN  IF ~installer_info.ok
           THEN /\ output' = Append(output, Line("is not a valid URI", options.uri, NoPath))
                /\ Return("1")
                /\ UNCHANGED <<game_slug, action, revision>>
           ELSE /\ game_slug' = installer_info.game_slug
                /\ action' = installer_info.action
                /\ revision' = installer_info.revision
                /\ pc' = "install_opt"
                /\ UNCHANGED <<output, exitStatus>>
    /\ UNCHANGED <<db, window, windowsCreated, options, installer_file, db_game, dlg,
                   activations, presents, creations, queries, installCalls, runCalls>>
    /\ UNCHANGED <<listed, sigint, child, stopCalls, prev>>

\* the --install option: forces action install, rejects a missing file
InstallOption ==
    /\ pc = "install_opt"
    /\ installer_file' = IF options.install # NoPath THEN abspath(options.install)
                         ELSE installer_file
    /\ action' = ForcedAction(action, options.install)
    /\ IF options.install # NoPath /\ ~isfile(abspath(options.install))
       THEN /\ output' = Append(output, Line("No such file", NoUri,
                                             abspath(options.install)))
            /\ Return("1")
       ELSE /\ pc' = "activate"
            /\ UNCHANGED <<output, exitStatus>>
    /\ UNCHANGED <<db, window, windowsCreated, options, game_slug, revision, db_game,
                   dlg, activations, presents, creations, queries, installCalls,
                   runCalls>>
    /\ UNCHANGED <<listed, sigint, child, stopCalls, prev>>

\* self.activate()
ActivateWindow ==
    /\ pc = "activate"
    /\ activations' = activations + 1
    /\ do_activate
    /\ pc' = "resolve"
    /\ UNCHANGED <<db, options, game_slug, action, revision, installer_file, db_game,
                   dlg, queries, output, installCalls, runCalls, exitStatus>>
    /\ UNCHANGED <<listed, sigint, child, stopCalls, prev>>

\* db_game = ... : the lookups by id / slug / installer_slug
Resolve ==
    /\ pc = "resolve"
    /\ LET r == ResolveGame(db, game_slug, action)
       IN  /\ db_game' = r.game
           /\ queries' = queries \o r.asked
    /\ pc' = "decide"
    /\ UNCHANGED <<db, window, windowsCreated, options, game_slug, action, revision,
                   installer_file, dlg, activations, presents, creations, output,
                   installCalls, runCalls, exitStatus>>
    /\ UNCHANGED <<listed, sigint, child, stopCalls, prev>>

\* if not action: ask the user, or default to install
Decide ==
    /\ pc = "decide"
    /\ IF action = None
       THEN IF AskUser(db_game)
            THEN \E d \in DialogResults :
                    /\ dlg' = d
                    /\ action' = DialogAction(action, d)
            ELSE /\ action' = DefaultAction(action, game_slug, installer_file)
                 /\ UNCHANGED dlg
       ELSE UNCHANGED <<action, dlg>>
    /\ pc' = "execute"
    /\ UNCHANGED <<db, window, windowsCreated, options, game_slug, revision,
                   installer_file, db_game, activations, presents, creations, queries,
                   output, installCalls, runCalls, exitStatus>>
    /\ UNCHANGED <<listed, sigint, child, stopCalls, prev>>

\* the collaborator call for the final action, then return 0
Execute ==
    /\ pc = "execute"
    /\ IF Dispatch(action) = "install"
       THEN /\ installCalls' = Append(installCalls,
                                      [game_slug |-> game_slug,
                                       installer_file |-> installer_file,
                                       revision |-> revision])
            /\ Return("0")
            /\ UNCHANGED runCalls
       ELSE IF Dispatch(action) = "run"
       THEN IF LaunchRaises(db_game)
            THEN /\ Return("raised")
                 /\ UNCHANGED <<installCalls, runCalls>>
            ELSE /\ runCalls' = Append(runCalls, db_game.id)
                 /\ Return("0")
                 /\ UNCHANGED installCalls
       ELSE /\ Return("0")
            /\ UNCHANGED <<installCalls, runCalls>>
    /\ UNCHANGED <<db, window, windowsCreated, options, game_slug, action, revision,
                   installer_file, db_game, dlg, activations, presents, creations,
                   queries, output>>
    /\ UNCHANGED <<listed, sigint, child, stopCalls, prev>>

Next ==
    \/ Startup
    \/ Activate
    \/ Invoke
    \/ Finish
    \/ Shutdown
    \/ ListCommand
    \/ ExecCommand
    \/ ChildExits
    \/ Interrupt
    \/ ParseUri
    \/ InstallOption
    \/ ActivateWindow
    \/ Resolve
    \/ Decide
    \/ Execute

Spec == Init /\ [][Next]_vars

\* the steps the program takes by itself; a new command line, an activation,
\* a shutdown, the end of the child and a SIGINT come from outside
ProgramStep ==
    \/ Startup
    \/ Finish
    \/ ListCommand
    \/ ExecCommand
    \/ ParseUri
    \/ InstallOption
    \/ ActivateWindow
    \/ Resolve
    \/ Decide
    \/ Execute

\* a handler that can go on does go on
FairSpec == Spec /\ WF_vars(ProgramStep)

\* the same ActionRequest handled twice in a row against the same table
TwiceNext ==
    \/ Startup
    \/ InvokeRequest
    \/ Remember
    \/ InvokeAgain
    \/ Finish
    \/ ParseUri
    \/ InstallOption
    \/ ActivateWindow
    \/ Resolve
    \/ Decide
    \/ Execute

TwiceSpec == Init /\ [][TwiceNext]_vars

-----------------------------------------------------------------------------
(* The invocation that is being handled, read from its options *)

NoTextFlag == options.flags \cap TextFlags = {}
UriAbsent == options.uri = NoUri
UriWellFormed == options.uri \in WellFormedUris
UriAction == IF Len(options.uri.path) = 2 THEN options.uri.path[1] ELSE None
UriIdent ==
    IF Len(options.uri.path) = 0 THEN None ELSE options.uri.path[Len(options.uri.path)]
InstallAbsent == options.install = NoPath
InstallExisting == options.install \in {<<"game.yml">>, <<"/", "home", "game.yml">>}
InstallMissing == options.install = <<"missing.yml">>
GameYml == <<"/", "home", "game.yml">>
RunActions == {"rungame", "rungameid"}

\* rows of the table whose field f holds v, and the first of them
Rows(f, v) == {i \in 1..Len(db) : db[i][f] = v}
First(f, v) ==
    IF Rows(f, v) = {} THEN NoGame
    ELSE db[CHOOSE i \in Rows(f, v) : \A j \in Rows(f, v) : i <= j]
Query(f, v) == [field |-> f, value |-> v]

NoGuiEffects ==
    /\ activations = 0
    /\ presents = 0
    /\ creations = 0
    /\ queries = <<>>
    /\ ~dlg.shown
    /\ installCalls = <<>>
    /\ runCalls = <<>>

-----------------------------------------------------------------------------
\* C1: with no text-only flag, a well-formed or absent URI and --install naming
\* an existing file, the launch collaborator is never invoked and the handler
\* ends with action install, exit status 0 and exactly one install call that
\* carries the absolute installer path, whatever action the URI encodes.
C1_InstallFileForcesInstall ==
    (NoTextFlag /\ (UriAbsent \/ UriWellFormed) /\ InstallExisting) =>
        /\ runCalls = <<>>
        /\ pc = "done" =>
            /\ action = "install"
            /\ exitStatus = "0"
            /\ installCalls = <<[game_slug |-> UriIdent, installer_file |-> GameYml,
                                 revision |-> options.uri.revision]>>

\* a run-by-slug URI whose game exists, given with a relative --install path
C1_Witness ==
    /\ pc = "done"
    /\ NoTextFlag
    /\ UriAction = "rungame"
    /\ options.install = <<"game.yml">>
    /\ db_game # NoGame
    /\ Len(installCalls) = 1
    /\ installCalls[1].installer_file = GameYml

\* C2: once the resolver has run, the record and the queries made are those of
\* the lookup precedence: rungameid asks by id only, rungame by slug only,
\* install by slug and only on a miss by installer_slug, and an absent or
\* unknown action by id, then slug, then installer_slug; first match wins.
C2_LookupPrecedence ==
    (pc = "decide" /\ game_slug # None) =>
        LET v == game_slug
            hit(f) == Rows(f, v) # {}
        IN  IF action = "rungameid"
            THEN /\ db_game = First("id", v)
                 /\ queries = <<Query("id", v)>>
            ELSE IF action = "rungame"
            THEN /\ db_game = First("slug", v)
                 /\ queries = <<Query("slug", v)>>
            ELSE IF action = "install"
            THEN IF hit("slug")
                 THEN /\ db_game = First("slug", v)
                      /\ queries = <<Query("slug", v)>>
                 ELSE /\ db_game = First("installer_slug", v)
                      /\ queries = <<Query("slug", v), Query("installer_slug", v)>>
            ELSE IF hit("id")
                 THEN /\ db_game = First("id", v)
                      /\ queries = <<Query("id", v)>>
                 ELSE IF hit("slug")
                 THEN /\ db_game = First("slug", v)
                      /\ queries = <<Query("id", v), Query("slug", v)>>
                 ELSE /\ db_game = First("installer_slug", v)
                      /\ queries = <<Query("id", v), Query("slug", v),
                                     Query("installer_slug", v)>>

\* action install and an identifier that matches only a record's installer_slug
C2_Witness ==
    /\ pc = "decide"
    /\ action = "install"
    /\ game_slug # None
    /\ Rows("slug", game_slug) = {}
    /\ Rows("id", game_slug) = {}
    /\ db_game # NoGame
    /\ db_game.installer_slug = game_slug

\* C3: with no parsed action and an installed record the dialog is shown; a
\* declined dialog ends with action none and no collaborator call, whatever the
\* dialog's action field holds; a confirmed one ends with the chosen action.
C3_DeclinedDialogDoesNothing ==
    /\ (pc \in {"execute", "done"} /\ NoTextFlag /\ UriAction = None /\ InstallAbsent
          /\ AskUser(db_game)) => dlg.shown
    /\ (pc = "done" /\ dlg.shown /\ ~dlg.action_confirmed) =>
          /\ action = None
          /\ installCalls = <<>>
          /\ runCalls = <<>>
    /\ (pc = "done" /\ dlg.shown /\ dlg.action_confirmed) =>
          action = (IF dlg.action = "play" THEN "rungame"
                    ELSE IF dlg.action = "install" THEN "install" ELSE None)

\* C4: a run action without a resolved record never reaches the launch
\* collaborator and ends as an error, not with exit status 0; every launch call
\* carries the id of the record that was resolved from the table.
C4_NoLaunchWithoutRecord ==
    /\ (pc = "done" /\ action \in RunActions /\ db_game = NoGame) =>
          /\ runCalls = <<>>
          /\ exitStatus = "raised"
    /\ \A i \in 1..Len(runCalls) :
          /\ db_game # NoGame
          /\ runCalls[i] = db_game.id
          /\ \E j \in 1..Len(db) : db[j] = db_game

\* a run-by-slug URI whose slug is in no row
C4_Witness ==
    /\ pc = "done"
    /\ action = "rungame"
    /\ UriIdent # None
    /\ db_game = NoGame
    /\ exitStatus = "raised"

\* C5: with no text-only flag, a well-formed or absent URI and --install naming
\* a file that does not exist, the handler never activates, creates or presents
\* a window, queries the table or calls a collaborator, and it ends by
\* reporting the missing file with exit status 1.
C5_MissingFileRejectedBeforeGui ==
    (NoTextFlag /\ (UriAbsent \/ UriWellFormed) /\ InstallMissing) =>
        /\ NoGuiEffects
        /\ pc \in {"start", "install_opt", "done"}
        /\ pc = "done" =>
            /\ exitStatus = "1"
            /\ output = <<Line("No such file", NoUri, <<"/", "home", "missing.yml">>)>>

C5_Witness ==
    /\ pc = "done"
    /\ NoTextFlag
    /\ UriWellFormed
    /\ InstallMissing
    /\ exitStatus = "1"
    /\ window = None

\* C6: with no text-only flag and a URI that parse_installer_url rejects, the
\* handler has no GUI side effect at any point and ends by printing an error
\* that names the URI, with exit status 1, with or without --install.
C6_MalformedUriRejected ==
    (NoTextFlag /\ ~UriAbsent /\ ~parse_installer_url(options.uri).ok) =>
        /\ NoGuiEffects
        /\ pc \in {"start", "done"}
        /\ pc = "done" =>
            /\ exitStatus = "1"
            /\ output = <<Line("is not a valid URI", options.uri, NoPath)>>

C6_Witness ==
    /\ pc = "done"
    /\ NoTextFlag
    /\ options.uri \in MalformedUris
    /\ InstallExisting
    /\ exitStatus = "1"
    /\ Len(output) = 1

\* C7: an explicit action is used as it is: a run-by-id or run-by-slug URI
\* without --install whose identifier resolves ends with exactly one launch
\* call, carrying that record's id, and no install call; and no handler ever
\* makes more than one collaborator call in all.
C7_ExplicitActionUsedAsIs ==
    /\ Len(installCalls) + Len(runCalls) <= 1
    /\ (pc = "done" /\ NoTextFlag /\ UriWellFormed /\ InstallAbsent
          /\ UriAction \in RunActions \cup {"install"}) =>
          /\ action = UriAction
          /\ ~dlg.shown
    /\ (pc = "done" /\ NoTextFlag /\ UriWellFormed /\ InstallAbsent
          /\ UriAction = "rungameid" /\ Rows("id", UriIdent) # {}) =>
          /\ runCalls = <<UriIdent>>
          /\ installCalls = <<>>
    /\ (pc = "done" /\ NoTextFlag /\ UriWellFormed /\ InstallAbsent
          /\ UriAction = "rungame" /\ Rows("slug", UriIdent) # {}) =>
          /\ runCalls = <<First("slug", UriIdent).id>>
          /\ installCalls = <<>>

\* lutris:rungameid/42 with a row of id 42
C7_Witness ==
    /\ pc = "done"
    /\ NoTextFlag
    /\ InstallAbsent
    /\ UriAction = "rungameid"
    /\ UriIdent = "42"
    /\ runCalls = <<"42">>

\* C8: with no parsed action, an identifier, and either no record or a record
\* that is not installed, a handler that got past the installer-file check ends
\* with action install, no dialog, no launch call and one install call carrying
\* the identifier, the installer file and the revision.
C8_DefaultsToInstall ==
    (pc = "done" /\ NoTextFlag /\ UriWellFormed /\ UriAction = None
       /\ (InstallAbsent \/ InstallExisting)
       /\ (db_game = NoGame \/ ~db_game.installed)) =>
        /\ action = "install"
        /\ ~dlg.shown
        /\ runCalls = <<>>
        /\ installCalls =
              <<[game_slug |-> UriIdent,
                 installer_file |-> IF InstallAbsent THEN NoPath ELSE GameYml,
                 revision |-> options.uri.revision]>>

\* a known but not installed game, asked for with a revision
C8_Witness ==
    /\ pc = "done"
    /\ NoTextFlag
    /\ UriWellFormed
    /\ UriAction = None
    /\ InstallAbsent
    /\ db_game # NoGame
    /\ ~db_game.installed
    /\ options.uri.revision = "r1"
    /\ Len(installCalls) = 1

\* C9: an invocation with no URI, no --install and no text-only flag ends with
\* action none and exit status 0: the window is presented once, and there is no
\* query, no dialog, no output and no collaborator call.
C9_BareInvocationShowsWindowOnly ==
    (pc = "done" /\ options = NoOptions) =>
        /\ action = None
        /\ exitStatus = "0"
        /\ activations = 1
        /\ presents = 1
        /\ window = "LutrisWindow"
        /\ queries = <<>>
        /\ ~dlg.shown
        /\ output = <<>>
        /\ installCalls = <<>>
        /\ runCalls = <<>>

C9_Witness ==
    /\ pc = "done"
    /\ options = NoOptions
    /\ presents = 1
    /\ Len(db) > 0

\* C10: at most one main window is ever created, it exists exactly when one was
\* created, and every handler that got past the URI and installer-file checks
\* (and every activation) ends with the window present and presented.
C10_SingleWindow ==
    /\ windowsCreated <= 1
    /\ creations <= windowsCreated
    /\ (window = None) <=> (windowsCreated = 0)
    /\ (presents > 0) => window = "LutrisWindow"
    /\ (window = "destroyed") => pc = "shutdown"
    /\ (pc = "done" /\ NoTextFlag /\ (UriAbsent \/ UriWellFormed) /\ ~InstallMissing) =>
          /\ presents = 1
          /\ window = "LutrisWindow"
    /\ (pc = "activated") =>
          /\ presents = 1
          /\ window = "LutrisWindow"

\* a later invocation that found the window there, reused and presented it
C10_Witness ==
    /\ pc = "done"
    /\ NoTextFlag
    /\ presents = 1
    /\ creations = 0
    /\ windowsCreated = 1

ListingFlags == {"list-games", "list-steam-games", "list-steam-folders"}
InstalledRows == {j \in 1..Len(db) : db[j].installed}

\* C11: an invocation with a listing flag never activates, creates or presents
\* a window, queries the resolver, starts a command or calls a collaborator; it
\* ends with exit status 0 after printing, and --list-games prints the rows of
\* the table in order, under --installed exactly the installed ones.
C11_ListingBypassesGui ==
    (options.flags \cap ListingFlags # {}) =>
        /\ NoGuiEffects
        /\ child = "none"
        /\ pc \in {"start", "done"}
        /\ pc = "done" =>
            /\ exitStatus = "0"
            /\ "list-games" \notin options.flags => (listed = <<>> /\ Len(output) = 1)
            /\ "list-games" \in options.flags =>
                /\ Len(output) = (IF "json" \in options.flags THEN 1 ELSE Len(listed))
                /\ "installed" \notin options.flags =>
                      /\ Len(listed) = Len(db)
                      /\ \A j \in 1..Len(db) :
                            listed[j] = [id |-> db[j].id, slug |-> db[j].slug]
                /\ "installed" \in options.flags =>
                      /\ Len(listed) = Cardinality(InstalledRows)
                      /\ \A i \in 1..Len(listed) : \E j \in InstalledRows :
                            listed[i] = [id |-> db[j].id, slug |-> db[j].slug]
                      /\ \A j \in InstalledRows : \E i \in 1..Len(listed) :
                            listed[i].id = db[j].id

\* --list-games --installed --json on a table with one installed game of two,
\* with a malformed URI alongside and no window yet
C11_Witness ==
    /\ pc = "done"
    /\ {"list-games", "installed", "json"} \subseteq options.flags
    /\ options.uri \in MalformedUris
    /\ Len(db) = 2
    /\ Len(listed) = 1
    /\ exitStatus = "0"
    /\ window = None

\* C12: whenever the --exec handler has ended, by returning or by the process
\* being ended by the interrupt (it ends in no other way), thread.stop() has
\* been called on the command it started.
C12_InterruptStopsChild ==
    (TextCommand(options.flags) = "exec" /\ pc \in {"done", "killed"}) =>
        stopCalls >= 1

\* C14: once the command started by --exec has finished while the handler
\* waits, the wait comes to an end: the handler eventually returns with exit
\* status 0, unless an interrupt ends the process first.
C14_WaitEndsWhenChildDone ==
    (pc = "mainloop" /\ child = "finished")
        ~> ((pc = "done" /\ exitStatus = "0") \/ pc = "killed")

\* C13: when the same ActionRequest has been handled twice against the same
\* table and the user gave the same answer to any dialog, the second handler
\* ends with the same resolved record, the same final action and the same exit
\* status as the first.
C13_DispatchIdempotent ==
    (pc = "done" /\ prev.set /\ options = prev.options /\ dlg = prev.dlg) =>
        /\ db_game = prev.db_game
        /\ action = prev.action
        /\ exitStatus = prev.exitStatus

\* the second handling of a request whose dialog was answered the same way and
\* ended in install, this time with the window already there
C13_Witness ==
    /\ pc = "done"
    /\ prev.set
    /\ options = prev.options
    /\ dlg.shown
    /\ dlg = prev.dlg
    /\ action = "install"
    /\ creations = 0

\* the text-only command that has been executed, read from its effects
ExecutedCommands ==
    ({output[i].text : i \in 1..Len(output)} \cap ListingFlags)
    \cup (IF \E i \in 1..Len(output) : output[i].text \in {"json", "game"}
          THEN {"list-games"} ELSE {})
    \cup (IF child # "none" THEN {"exec"} ELSE {})

FirstTextFlag ==
    IF "list-games" \in options.flags THEN "list-games"
    ELSE IF "list-steam-games" \in options.flags THEN "list-steam-games"
    ELSE IF "list-steam-folders" \in options.flags THEN "list-steam-folders"
    ELSE "exec"

\* with a text-only flag the URI is not parsed, the installer file is not
\* checked, and once the handler has acted exactly the first flag present in
\* the order list-games, list-steam-games, list-steam-folders, exec has run
C15_FirstFlagOnlyRuns ==
    (options.flags \cap TextFlags # {}) =>
        /\ NoGuiEffects
        /\ game_slug = None /\ action = None /\ installer_file = NoPath
        /\ \A i \in 1..Len(output) :
              output[i].text \notin {"is not a valid URI", "No such file"}
        /\ exitStatus \in {"running", "0"}
        /\ pc \in {"start", "mainloop", "done", "killed"}
        /\ pc = "start" => ExecutedCommands = {}
        /\ pc # "start" =>
              /\ ExecutedCommands \subseteq {FirstTextFlag}
              \* only a plain listing of no game at all leaves no trace
              /\ ExecutedCommands = {} =>
                    /\ FirstTextFlag = "list-games"
                    /\ "json" \notin options.flags
                    /\ listed = <<>>

\* C15: with a text-only flag present, exactly the first one in the order
\* list-games, list-steam-games, list-steam-folders, exec is executed, the URI
\* is never parsed and the installer file never checked, and the invocation,
\* once it has ended, has returned 0.
C15_TextFlagsFirstAndReturnZero ==
    /\ C15_FirstFlagOnlyRuns
    /\ (options.flags \cap TextFlags # {} /\ pc \in {"done", "killed"}) =>
          exitStatus = "0"

====
